---- MODULE Spec2Model ----
(***************************************************************************)
(* Model of the DTN IQFeed symbol downloader (dtn_symbol_downloader.py):   *)
(* the retrying page fetcher search_symbols, the harvest loop              *)
(* download_all_symbols with its batch files and its checkpoint file       *)
(* download_state.json, the merge/dedup step, and the entry point main().  *)
(***************************************************************************)
EXTENDS Integers, Sequences, FiniteSets, TLC

(***************************************************************************)
(* Bounds of the model.                                                    *)
(***************************************************************************)
\* most rows of a dataset the partition specification draws
MaxSplitRows == 3
\* longest backend stream (in pages) the harvest specification draws
MaxPages == 3
\* number of consecutive program runs on one output directory
MaxRuns == 2
\* largest retry_count the fetcher specification draws
MaxRetryCount == 4
\* length of the long backend stream of the termination specification
LongPages == 1001
\* how far below the batch ceiling the runs near the ceiling start
CeilingMargin == 1

(***************************************************************************)
(* Program constants.                                                      *)
(***************************************************************************)
\* search_symbols(..., retry_count=3, retry_delay=5)
DefaultRetryCount == 3
DefaultRetryDelay == 5
\* max_consecutive_errors = 3
max_consecutive_errors == 3
\* wait_time = 30 * consecutive_errors
ErrorWaitUnit == 30
\* if batch > 1000: break
BatchCeiling == 1000
\* --delay default
DefaultDelay == 2

\* Python None for the cursor (nextKey) and for resume_from_batch
None == 0
\* a file that does not exist
NoFile == [exists |-> FALSE]
\* download_state.json opened with mode 'w' (truncated), its JSON not yet
\* (fully) flushed
PartialCheckpoint == [exists |-> TRUE, complete |-> FALSE]
\* can json.load read the checkpoint file?
Readable(f) == f # NoFile /\ f # PartialCheckpoint
\* no page in hand
NoResult == [none |-> TRUE]
\* the float NaN pandas puts where a CSV cell holds a missing-value token
NaN == "<NaN>"

(***************************************************************************)
(* Records and the backend stream.                                         *)
(***************************************************************************)
Rec(s, d) == [symbol |-> s, description |-> d]

\* record lists a page can carry
PageAB == <<Rec("A", 1), Rec("B", 1)>>
PageCD == <<Rec("C", 1), Rec("D", 1)>>
PageEF == <<Rec("E", 1), Rec("F", 1)>>
\* repeats key A with another description, and repeats record C
PageAC == <<Rec("A", 2), Rec("C", 1)>>
\* ticker symbols that are missing-value tokens of pandas.read_csv
PageNA == <<Rec("NA", 1), Rec("NULL", 1)>>

\* the page cycles the streams are built from
Bases == <<
  <<PageAB, PageCD, PageEF>>,
  <<PageAB, PageAC, PageCD>>,
  <<PageNA, PageAB>> >>

\* how a finite stream signals its end: on its last page (hasMore false, a
\* null nextKey, or both), or by an empty page after it that says hasMore
\* false ("emptyPage") or still says hasMore true with a cursor ("emptyMore")
TermModes == {"hasMoreFalse", "nullKey", "both", "emptyPage", "emptyMore"}

\* a stream: npages pages taken cyclically from a base (npages = 0: the
\* backend holds no symbol)
StreamsUpTo(n) ==
  [base : 1..Len(Bases), npages : 1..n, term : TermModes]
    \cup [base : {1}, npages : {0}, term : {"emptyPage", "emptyMore"}]

\* a finite stream longer than the batch ceiling
LongStreams == [base : {1}, npages : {LongPages}, term : {"hasMoreFalse"}]

\* a backend that never ends: every page has records, says hasMore true and
\* carries a cursor (npages plays no part)
EndlessStreams == [base : {1, 2}, npages : {0}, term : {"endless"}]

EmptyPage ==
  [symbolList |-> <<>>, totalFound |-> 0, hasMore |-> FALSE, nextKey |-> None]

Content(s, i) == Bases[s.base][((i - 1) % Len(Bases[s.base])) + 1]

\* the i-th page of stream s, as the decoded 'data' object of the response;
\* the cursor returned with page i is i
PageOf(s, i) ==
  IF s.term # "endless" /\ i > s.npages
  THEN IF s.term = "emptyMore"
       THEN [symbolList |-> <<>>, totalFound |-> 0, hasMore |-> TRUE,
             nextKey |-> i]
       ELSE EmptyPage
  ELSE [symbolList |-> Content(s, i),
        totalFound |-> IF s.base = Len(Bases) THEN 0 ELSE 2 * s.npages,
        hasMore |-> (i < s.npages
                       \/ s.term \in {"nullKey", "emptyPage", "emptyMore",
                                      "endless"}),
        nextKey |-> IF i = s.npages /\ s.term \in {"nullKey", "both"}
                    THEN None ELSE i]

\* the page the backend returns for a cursor (None = first page)
Backend(s, cursor) == PageOf(s, cursor + 1)

(***************************************************************************)
(* search_symbols: the retrying page fetcher.                              *)
(***************************************************************************)
\* what one transport GET can come back with
Outcomes ==
  {"data",       \* HTTP 200, body has 'data'
   "transient",  \* HTTP 200, errors[0] contains 'backend search database'
   "logic",      \* HTTP 200, errors[0] is another message
   "nostruct",   \* HTTP 200, body has neither 'data' nor 'errors'
   "http4xx",    \* status neither 200 nor >= 500
   "http5xx",    \* status >= 500
   "timeout",    \* requests.exceptions.Timeout
   "connerr",    \* requests.exceptions.ConnectionError
   "exc"}        \* any other exception (e.g. a body that is not JSON)

\* the locals of one search_symbols call, with the GETs made so far
\* (outcomes) and the sleeps made so far (waits) as its history
NewCall ==
  [attempt |-> 0, ret |-> "running", last_error |-> "None",
   outcomes |-> <<>>, waits |-> <<>>]

\* variant: the server-error wait does not grow with the attempt
AttemptSleepFlat(o, attempt, rc, rd) ==
  CASE o = "transient" /\ attempt < rc - 1 -> <<rd * (attempt + 2)>>
    [] o = "http5xx" /\ attempt < rc - 1 -> <<rd>>
    [] o = "timeout" /\ attempt < rc - 1 -> <<rd>>
    [] o = "connerr" /\ attempt < rc - 1 -> <<rd * (attempt + 1)>>
    [] o = "exc" /\ attempt < rc - 1 -> <<rd>>
    [] OTHER -> <<>>

\* variant: the transient-error wait uses the server-error multiplier
AttemptSleepSameBackoff(o, attempt, rc, rd) ==
  CASE o = "transient" /\ attempt < rc - 1 -> <<rd * (attempt + 1)>>
    [] o = "http5xx" /\ attempt < rc - 1 -> <<rd * (attempt + 1)>>
    [] o = "timeout" /\ attempt < rc - 1 -> <<rd>>
    [] o = "connerr" /\ attempt < rc - 1 -> <<rd * (attempt + 1)>>
    [] o = "exc" /\ attempt < rc - 1 -> <<rd>>
    [] OTHER -> <<>>

\* the sleep one attempt ends with: <<seconds>>, or <<>> when it does not sleep
AttemptSleep(o, attempt, rc, rd) ==
  CASE o = "transient" /\ attempt < rc - 1 -> <<rd * (attempt + 2)>>
    [] o = "http5xx" /\ attempt < rc - 1 -> <<rd * (attempt + 1)>>
    [] o = "timeout" /\ attempt < rc - 1 -> <<rd>>
    [] o = "connerr" /\ attempt < rc - 1 -> <<rd * (attempt + 1)>>
    [] o = "exc" /\ attempt < rc - 1 -> <<rd>>
    [] OTHER -> <<>>

\* last_error after one attempt
AttemptError(o, attempt, rc, prev) ==
  CASE o = "transient" -> IF attempt < rc - 1 THEN prev ELSE "backend search database"
    [] o = "logic" -> "error message"
    [] o = "nostruct" -> "Unexpected response structure"
    [] o = "http4xx" -> "HTTP 4xx"
    [] o = "http5xx" -> "HTTP 5xx"
    [] o = "timeout" -> "Request timed out"
    [] o = "connerr" -> "Connection error"
    [] o = "exc" -> "Unexpected error"
    [] OTHER -> prev

\* does the call stop attempting after this attempt?  Only a 'data' body
\* returns; every other branch of the loop body runs to its end or continues,
\* and the for loop goes on with the next attempt.
AttemptReturns(o) == o = "data"

\* variant: an exception that is neither Timeout nor ConnectionError is not
\* caught and leaves the call
AttemptStepUncaught(c, o, rc, rd) ==
  [attempt |-> c.attempt + 1,
   ret |-> IF o = "data" THEN "data" ELSE IF o = "exc" THEN "raised" ELSE "running",
   last_error |-> AttemptError(o, c.attempt, rc, c.last_error),
   outcomes |-> Append(c.outcomes, o),
   waits |-> c.waits \o
     [k \in 1..Len(AttemptSleep(o, c.attempt, rc, rd)) |->
        [after |-> c.attempt, secs |-> AttemptSleep(o, c.attempt, rc, rd)[k]]]]

\* one iteration of `for attempt in range(retry_count)` with transport outcome o
AttemptStep(c, o, rc, rd) ==
  [attempt |-> c.attempt + 1,
   ret |-> IF AttemptReturns(o) THEN "data" ELSE "running",
   last_error |-> AttemptError(o, c.attempt, rc, c.last_error),
   outcomes |-> Append(c.outcomes, o),
   waits |-> c.waits \o
     [k \in 1..Len(AttemptSleep(o, c.attempt, rc, rd)) |->
        [after |-> c.attempt, secs |-> AttemptSleep(o, c.attempt, rc, rd)[k]]]]

\* the loop is exhausted: `return None`
LoopExhausted(c) == [c EXCEPT !.ret = "none"]

RECURSIVE RunCall(_, _, _, _)
RunCall(c, outs, rc, rd) ==
  IF c.ret # "running" THEN c
  ELSE IF c.attempt >= rc THEN LoopExhausted(c)
  ELSE RunCall(AttemptStep(c, outs[c.attempt + 1], rc, rd), outs, rc, rd)

\* a whole search_symbols call against the outcomes outs[1], outs[2], ...
SearchSymbols(outs, rc, rd) == RunCall(NewCall, outs, rc, rd)

\* a call seen from outside: its return, its GETs and its sleeps
CallSummary(c) == [ret |-> c.ret, gets |-> Len(c.outcomes), waits |-> c.waits]

NoCall == [ret |-> "none", gets |-> 0, pre |-> <<>>, post |-> <<>>]

\* every way a call with the default arguments can end
DefaultCalls ==
  {CallSummary(SearchSymbols(o, DefaultRetryCount, DefaultRetryDelay)) :
     o \in [1..DefaultRetryCount -> Outcomes]}

(***************************************************************************)
(* DataFrames and CSV files.  A DataFrame is the sequence of its rows; a   *)
(* CSV file is the sequence of rows with every cell as the text written.   *)
(***************************************************************************)
\* cell texts pandas.read_csv turns into NaN by default
NaValues == {"", "NA", "NULL", "NaN", "N/A", "nan", "null", "n/a", "#N/A", "<NA>"}

\* DataFrame.to_csv: NaN is written as the empty cell
ToCsvRow(r) == [r EXCEPT !.symbol = IF @ = NaN THEN "" ELSE @]
ToCsv(df) == [i \in 1..Len(df) |-> ToCsvRow(df[i])]

\* pandas.read_csv: a missing-value token is read as NaN
ReadCsvRow(r) == [r EXCEPT !.symbol = IF @ \in NaValues THEN NaN ELSE @]
ReadCsv(file) == [i \in 1..Len(file) |-> ReadCsvRow(file[i])]

\* pd.concat(all_dataframes, ignore_index=True): the frames lo..hi of dfs, in
\* order (split in halves so that a thousand frames do not nest a thousand deep)
RECURSIVE ConcatRange(_, _, _)
ConcatRange(dfs, lo, hi) ==
  IF lo > hi THEN <<>>
  ELSE IF lo = hi THEN dfs[lo]
  ELSE LET mid == (lo + hi) \div 2
       IN ConcatRange(dfs, lo, mid) \o ConcatRange(dfs, mid + 1, hi)

Concat(dfs) == ConcatRange(dfs, 1, Len(dfs))

\* variant: keep='last'
KeepsRowLast(df, i) == \A j \in (i + 1)..Len(df) : df[j].symbol # df[i].symbol

\* is row i of df kept by drop_duplicates(subset=['symbol'])?  (keep='first')
KeepsRow(df, i) == \A j \in 1..(i - 1) : df[j].symbol # df[i].symbol

\* the kept rows among rows lo..hi of df, in order
RECURSIVE KeptRange(_, _, _)
KeptRange(df, lo, hi) ==
  IF lo > hi THEN <<>>
  ELSE IF lo = hi THEN (IF KeepsRow(df, lo) THEN <<df[lo]>> ELSE <<>>)
  ELSE LET mid == (lo + hi) \div 2
       IN KeptRange(df, lo, mid) \o KeptRange(df, mid + 1, hi)

\* combined_df.drop_duplicates(subset=['symbol'])
DropDuplicates(df) == KeptRange(df, 1, Len(df))

RECURSIVE Ascending(_)
Ascending(S) ==
  IF S = {} THEN <<>>
  ELSE LET m == CHOOSE x \in S : \A y \in S : x <= y
       IN <<m>> \o Ascending(S \ {m})

\* the batch files batch_1.csv .. batch_{R-1}.csv that exist, read in order
LoadBatches(files, R) ==
  LET found == Ascending({i \in DOMAIN files : i < R})
  IN [k \in 1..Len(found) |-> ReadCsv(files[found[k]])]

RECURSIVE SumLen(_)
SumLen(dfs) == IF dfs = <<>> THEN 0 ELSE Len(Head(dfs)) + SumLen(Tail(dfs))

NoFiles == [i \in {} |-> <<>>]

\* main()'s result_df: not yet bound, None, or a DataFrame
Unbound == [kind |-> "unbound", rows |-> <<>>]
NoneDf == [kind |-> "None", rows |-> <<>>]
Df(rows) == [kind |-> "DataFrame", rows |-> rows]

(***************************************************************************)
(* split_symbols_by_exchange_and_type.  The output tree is a function from *)
(* <<exchange, securityType>> (the path by_exchange/<exchange>/<type>.csv) *)
(* to the rows of the file.                                                *)
(***************************************************************************)
\* line 362: both columns are there
HasColumns(rows) ==
  /\ rows # <<>>
  /\ \A i \in 1..Len(rows) : {"exchange", "securityType"} \subseteq DOMAIN rows[i]

\* the keys DataFrame.groupby(col) yields: with the default dropna=True a row
\* whose key is None/NaN belongs to no group
GroupKeys(rows, col) == {rows[i][col] : i \in 1..Len(rows)} \ {NaN}

\* one group of groupby(col): the rows with that key, in frame order
GroupOf(rows, col, key) == SelectSeq(rows, LAMBDA r : r[col] = key)

\* the files one call writes
SplitPaths(rows) ==
  {p \in GroupKeys(rows, "exchange") \X GroupKeys(rows, "securityType") :
     GroupOf(GroupOf(rows, "exchange", p[1]), "securityType", p[2]) # <<>>}

\* lines 360-382: each (exchange, securityType) group is written to its file,
\* overwriting it; other files of the tree are left alone
split_symbols_by_exchange_and_type(rows, files) ==
  IF ~HasColumns(rows) THEN files
  ELSE [p \in DOMAIN files \cup SplitPaths(rows) |->
          IF p \in SplitPaths(rows)
          THEN GroupOf(GroupOf(rows, "exchange", p[1]), "securityType", p[2])
          ELSE files[p]]

(***************************************************************************)
(* State.                                                                  *)
(***************************************************************************)
VARIABLES
  stream,             \* the backend's fixed page stream
  run,                \* which run of the program this is (1, 2, ..)
  delay,              \* args.delay
  resume_from_batch,  \* args.resume
  pc,                 \* where the run is
  exit,               \* how the harvest loop was left: DONE or ABORTED
  batch, next_key, total_symbols, total_reported,
  consecutive_errors, all_dataframes,
  result,             \* the page returned by the last successful fetch
  combined_df,
  last_call,          \* the last search_symbols call: return, GETs, harvest sleeps
  page_waits,         \* the sleeps inside the call that returned the page in hand
  restored,           \* download_state.json as Start read it (history)
  pages_fetched,      \* pages this run's search_symbols calls returned (history)
  failed_calls,       \* failed search_symbols calls since the last successful
                      \* one, or since the start of the run (history)
  batch_files,        \* batch number -> batch_<n>.csv
  state_file,         \* download_state.json
  latest_file,        \* all_symbols_latest.csv
  result_df,          \* main()'s result_df
  report,             \* what main() reported
  main_raised,        \* an exception left main()
  call, retry_count, retry_delay,  \* one search_symbols call, step by step
  dataframe,          \* the argument of split_symbols_by_exchange_and_type
  by_exchange         \* by_exchange/<exchange>/<securityType>.csv -> its rows

disk == <<batch_files, state_file, latest_file>>
locals == <<batch, next_key, total_symbols, total_reported,
            consecutive_errors, all_dataframes, result, combined_df>>
mainv == <<result_df, report, main_raised>>
fetcher == <<call, retry_count, retry_delay>>
env == <<stream, run, delay>>
splitv == <<dataframe, by_exchange>>
vars == <<env, resume_from_batch, pc, exit, locals, last_call, page_waits,
          restored, pages_fetched, failed_calls, disk, mainv, fetcher, splitv>>

Delays == {0, DefaultDelay}
\* args.resume: the first run on an empty output directory is started fresh
ResumeChoices ==
  IF run = 1 THEN {None}
  ELSE {None} \cup 2..(MaxPages + 1) \cup {BatchCeiling, BatchCeiling + 1}

\* the state when main() is about to call download_all_symbols
FreshLocals ==
  /\ pc = "INIT" /\ exit = "none"
  /\ resume_from_batch = None
  /\ batch = 1 /\ next_key = None /\ total_symbols = 0 /\ total_reported = 0
  /\ consecutive_errors = 0 /\ all_dataframes = <<>>
  /\ result = NoResult /\ combined_df = <<>>
  /\ last_call = NoCall /\ page_waits = <<>> /\ pages_fetched = 0
  /\ failed_calls = 0
  /\ restored = NoFile
  /\ result_df = Unbound /\ report = "none" /\ main_raised = FALSE

\* nothing has been partitioned yet
NoSplit == dataframe = <<>> /\ by_exchange = NoFiles

IdleFetcher ==
  /\ call = LoopExhausted(NewCall)
  /\ retry_count = DefaultRetryCount /\ retry_delay = DefaultRetryDelay

Init ==
  /\ stream \in StreamsUpTo(MaxPages)
  /\ delay \in Delays
  /\ run = 1
  /\ batch_files = NoFiles /\ state_file = NoFile /\ latest_file = NoFile
  /\ FreshLocals
  /\ IdleFetcher
  /\ NoSplit

(***************************************************************************)
(* download_all_symbols.                                                   *)
(***************************************************************************)
\* variant: a resumed run does not read the checkpoint file
StartNoRestore(R) ==
  /\ pc = "INIT"
  /\ resume_from_batch' = R
  /\ batch' = IF R # None THEN R ELSE 1
  /\ IF R # None /\ R > 1
     THEN /\ all_dataframes' = LoadBatches(batch_files, R)
          /\ total_symbols' = SumLen(LoadBatches(batch_files, R))
          /\ restored' = state_file
          /\ UNCHANGED <<next_key, total_reported>>
     ELSE UNCHANGED <<all_dataframes, total_symbols, next_key, total_reported,
                      restored>>
  /\ pc' = "FETCHING"
  /\ UNCHANGED <<env, splitv, exit, consecutive_errors, result, combined_df, last_call,
                 page_waits, pages_fetched, failed_calls, disk, mainv, fetcher>>

\* lines 152-199: the arguments, and the restore from disk when resuming
Start(R) ==
  /\ pc = "INIT"
  /\ resume_from_batch' = R
  /\ batch' = IF R # None THEN R ELSE 1
  /\ IF R # None /\ R > 1
     THEN /\ all_dataframes' = LoadBatches(batch_files, R)
          /\ total_symbols' = SumLen(LoadBatches(batch_files, R))
          /\ restored' = state_file
          /\ IF Readable(state_file)
             THEN /\ next_key' = state_file.next_key
                  /\ total_reported' = state_file.total_reported
             ELSE UNCHANGED <<next_key, total_reported>>
     ELSE UNCHANGED <<all_dataframes, total_symbols, next_key, total_reported,
                      restored>>
  /\ pc' = "FETCHING"
  /\ UNCHANGED <<env, splitv, exit, consecutive_errors, result, combined_df, last_call,
                 page_waits, pages_fetched, failed_calls, disk, mainv, fetcher>>

\* the inter-page sleep of line 206-207, as <<seconds>> or <<>>
PreSleep == IF batch > 1 THEN <<delay>> ELSE <<>>

Observed(c, post) ==
  [ret |-> c.ret, gets |-> c.gets, pre |-> PreSleep, post |-> post]

\* variant: after a failed fetch the harvest moves on to the next batch number
FetchFailedSkips(c) ==
  /\ pc = "FETCHING"
  /\ c.ret = "none"
  /\ consecutive_errors' = consecutive_errors + 1
  /\ failed_calls' = failed_calls + 1
  /\ IF consecutive_errors' >= max_consecutive_errors
     THEN /\ exit' = "ABORTED" /\ pc' = "COMBINE"
          /\ last_call' = Observed(c, <<>>)
          /\ UNCHANGED batch
     ELSE /\ UNCHANGED <<exit, pc>>
          /\ last_call' = Observed(c, <<ErrorWaitUnit * consecutive_errors'>>)
          /\ batch' = batch + 1
  /\ UNCHANGED <<env, splitv, resume_from_batch, next_key, total_symbols,
                 total_reported, all_dataframes, result, combined_df,
                 page_waits, restored, pages_fetched, disk, mainv, fetcher>>

\* variant: no number of consecutive failures ends the harvest
FetchFailedNoLimit(c) ==
  /\ pc = "FETCHING"
  /\ c.ret = "none"
  /\ consecutive_errors' = consecutive_errors + 1
  /\ failed_calls' = failed_calls + 1
  /\ IF FALSE
     THEN /\ exit' = "ABORTED" /\ pc' = "COMBINE"
          /\ last_call' = Observed(c, <<>>)
     ELSE /\ UNCHANGED <<exit, pc>>
          /\ last_call' = Observed(c, <<ErrorWaitUnit * consecutive_errors'>>)
  /\ UNCHANGED <<env, splitv, resume_from_batch, batch, next_key, total_symbols,
                 total_reported, all_dataframes, result, combined_df,
                 page_waits, restored, pages_fetched, disk, mainv, fetcher>>

\* lines 202-225: the fetch failed
FetchFailed(c) ==
  /\ pc = "FETCHING"
  /\ c.ret = "none"
  /\ consecutive_errors' = consecutive_errors + 1
  /\ failed_calls' = failed_calls + 1
  /\ IF consecutive_errors' >= max_consecutive_errors
     THEN /\ exit' = "ABORTED" /\ pc' = "COMBINE"
          /\ last_call' = Observed(c, <<>>)
     ELSE /\ UNCHANGED <<exit, pc>>
          /\ last_call' = Observed(c, <<ErrorWaitUnit * consecutive_errors'>>)
  /\ UNCHANGED <<env, splitv, resume_from_batch, batch, next_key, total_symbols,
                 total_reported, all_dataframes, result, combined_df,
                 page_waits, restored, pages_fetched, disk, mainv, fetcher>>

\* variant: a successful call leaves the error counter as it is
FetchReturnedNoReset(c) ==
  /\ pc = "FETCHING"
  /\ c.ret = "data"
  /\ LET page == Backend(stream, next_key) IN
       /\ UNCHANGED consecutive_errors
       /\ failed_calls' = 0
       /\ pages_fetched' = pages_fetched + 1
       /\ last_call' = Observed(c, <<>>)
       /\ total_reported' = IF batch = 1 /\ page.totalFound > 0
                            THEN page.totalFound ELSE total_reported
       /\ IF page.symbolList = <<>>
          THEN /\ exit' = "DONE" /\ pc' = "COMBINE" /\ result' = NoResult
               /\ page_waits' = <<>>
          ELSE /\ pc' = "PERSISTING" /\ result' = page /\ UNCHANGED exit
               /\ page_waits' = c.waits
  /\ UNCHANGED <<env, splitv, resume_from_batch, batch, next_key, total_symbols,
                 all_dataframes, combined_df, restored, disk, mainv, fetcher>>

\* lines 202-241: the fetch returned a page
FetchReturned(c) ==
  /\ pc = "FETCHING"
  /\ c.ret = "data"
  /\ LET page == Backend(stream, next_key) IN
       /\ consecutive_errors' = 0
       /\ failed_calls' = 0
       /\ pages_fetched' = pages_fetched + 1
       /\ last_call' = Observed(c, <<>>)
       /\ total_reported' = IF batch = 1 /\ page.totalFound > 0
                            THEN page.totalFound ELSE total_reported
       /\ IF page.symbolList = <<>>
          THEN /\ exit' = "DONE" /\ pc' = "COMBINE" /\ result' = NoResult
               /\ page_waits' = <<>>
          ELSE /\ pc' = "PERSISTING" /\ result' = page /\ UNCHANGED exit
               /\ page_waits' = c.waits
  /\ UNCHANGED <<env, splitv, resume_from_batch, batch, next_key, total_symbols,
                 all_dataframes, combined_df, restored, disk, mainv, fetcher>>

\* variant: the running total is overwritten instead of accumulated
PersistNoTotal ==
  /\ pc = "PERSISTING"
  /\ batch_files' = (batch :> ToCsv(result.symbolList)) @@ batch_files
  /\ all_dataframes' = Append(all_dataframes, result.symbolList)
  /\ total_symbols' = Len(result.symbolList)
  /\ pc' = "CHECKPOINTING"
  /\ last_call' = NoCall
  /\ page_waits' = <<>>
  /\ UNCHANGED <<env, splitv, resume_from_batch, exit, batch, next_key,
                 total_reported, consecutive_errors, result, combined_df,
                 restored, pages_fetched, failed_calls, state_file, latest_file, mainv,
                 fetcher>>

\* variant: the batch file is not written, and the run goes on
PersistNoFile ==
  /\ pc = "PERSISTING"
  /\ all_dataframes' = Append(all_dataframes, result.symbolList)
  /\ total_symbols' = total_symbols + Len(result.symbolList)
  /\ pc' = "CHECKPOINTING"
  /\ last_call' = NoCall
  /\ page_waits' = <<>>
  /\ UNCHANGED <<env, splitv, resume_from_batch, exit, batch, next_key,
                 total_reported, consecutive_errors, result, combined_df,
                 restored, pages_fetched, failed_calls, disk, mainv, fetcher>>

\* lines 243-249: save_symbols_batch and the counters
Persist ==
  /\ pc = "PERSISTING"
  /\ batch_files' = (batch :> ToCsv(result.symbolList)) @@ batch_files
  /\ all_dataframes' = Append(all_dataframes, result.symbolList)
  /\ total_symbols' = total_symbols + Len(result.symbolList)
  /\ pc' = "CHECKPOINTING"
  /\ last_call' = NoCall
  /\ page_waits' = <<>>
  /\ UNCHANGED <<env, splitv, resume_from_batch, exit, batch, next_key,
                 total_reported, consecutive_errors, result, combined_df,
                 restored, pages_fetched, failed_calls, state_file, latest_file, mainv,
                 fetcher>>

\* variant: the loop goes on without `batch += 1`
CheckpointNoAdvance ==
  /\ pc = "CHECKPOINTING"
  /\ next_key' = result.nextKey
  /\ state_file' = [batch |-> batch + 1, next_key |-> result.nextKey,
                    total_symbols |-> total_symbols,
                    total_reported |-> total_reported]
  /\ result' = NoResult
  /\ IF ~result.hasMore \/ result.nextKey = None
     THEN exit' = "DONE" /\ pc' = "COMBINE"
     ELSE pc' = "FETCHING" /\ UNCHANGED exit
  /\ UNCHANGED <<env, splitv, resume_from_batch, batch, total_symbols, total_reported,
                 consecutive_errors, all_dataframes, combined_df, last_call,
                 page_waits, restored, pages_fetched, failed_calls, batch_files, latest_file,
                 mainv, fetcher>>

\* variant: hasMore alone decides; a null nextKey does not end the harvest
CheckpointIgnoresKey ==
  /\ pc = "CHECKPOINTING"
  /\ next_key' = result.nextKey
  /\ state_file' = [batch |-> batch + 1, next_key |-> result.nextKey,
                    total_symbols |-> total_symbols,
                    total_reported |-> total_reported]
  /\ result' = NoResult
  /\ IF ~result.hasMore
     THEN /\ exit' = "DONE" /\ pc' = "COMBINE" /\ UNCHANGED batch
     ELSE /\ batch' = batch + 1
          /\ IF batch' > BatchCeiling
             THEN exit' = "DONE" /\ pc' = "COMBINE"
             ELSE pc' = "FETCHING" /\ UNCHANGED exit
  /\ UNCHANGED <<env, splitv, resume_from_batch, total_symbols, total_reported,
                 consecutive_errors, all_dataframes, combined_df, last_call,
                 page_waits, restored, pages_fetched, failed_calls, batch_files,
                 latest_file, mainv, fetcher>>

\* variant: the checkpoint does not record the running total
CheckpointOmitsTotal ==
  /\ pc = "CHECKPOINTING"
  /\ next_key' = result.nextKey
  /\ state_file' = [batch |-> batch + 1, next_key |-> result.nextKey,
                    total_symbols |-> 0,
                    total_reported |-> total_reported]
  /\ result' = NoResult
  /\ IF ~result.hasMore \/ result.nextKey = None
     THEN /\ exit' = "DONE" /\ pc' = "COMBINE" /\ UNCHANGED batch
     ELSE /\ batch' = batch + 1
          /\ IF batch' > BatchCeiling
             THEN exit' = "DONE" /\ pc' = "COMBINE"
             ELSE pc' = "FETCHING" /\ UNCHANGED exit
  /\ UNCHANGED <<env, splitv, resume_from_batch, total_symbols, total_reported,
                 consecutive_errors, all_dataframes, combined_df, last_call,
                 page_waits, restored, pages_fetched, failed_calls, batch_files, latest_file,
                 mainv, fetcher>>

\* lines 268-292: write download_state.json, then decide whether to go on
Checkpoint ==
  /\ pc = "CHECKPOINTING"
  /\ next_key' = result.nextKey
  /\ state_file' = [batch |-> batch + 1, next_key |-> result.nextKey,
                    total_symbols |-> total_symbols,
                    total_reported |-> total_reported]
  /\ result' = NoResult
  /\ IF ~result.hasMore \/ result.nextKey = None
     THEN /\ exit' = "DONE" /\ pc' = "COMBINE" /\ UNCHANGED batch
     ELSE /\ batch' = batch + 1
          /\ IF batch' > BatchCeiling
             THEN exit' = "DONE" /\ pc' = "COMBINE"
             ELSE pc' = "FETCHING" /\ UNCHANGED exit
  /\ UNCHANGED <<env, splitv, resume_from_batch, total_symbols, total_reported,
                 consecutive_errors, all_dataframes, combined_df, last_call,
                 page_waits, restored, pages_fetched, failed_calls, batch_files, latest_file,
                 mainv, fetcher>>

\* lines 309-337 and 345-347: merge, dedup and write all_symbols_latest.csv,
\* or return None when nothing was collected
Combine ==
  /\ pc = "COMBINE"
  /\ last_call' = NoCall
  /\ IF all_dataframes # <<>>
     THEN /\ combined_df' = DropDuplicates(Concat(all_dataframes))
          /\ latest_file' = [exists |-> TRUE, rows |-> ToCsv(combined_df')]
          /\ pc' = "REMOVE_STATE"
          /\ UNCHANGED result_df
     ELSE /\ result_df' = NoneDf
          /\ pc' = "RETURNED"
          /\ UNCHANGED <<combined_df, latest_file>>
  /\ UNCHANGED <<env, splitv, resume_from_batch, exit, batch, next_key,
                 total_symbols, total_reported, consecutive_errors,
                 all_dataframes, result, page_waits, restored, pages_fetched, failed_calls,
                 batch_files, state_file, report, main_raised, fetcher>>

\* variant: download_state.json is left in place
RemoveStateKeeps ==
  /\ pc = "REMOVE_STATE"
  /\ result_df' = Df(combined_df)
  /\ pc' = "RETURNED"
  /\ UNCHANGED <<env, splitv, resume_from_batch, exit, locals, last_call, page_waits,
                 restored, pages_fetched, failed_calls, disk, report, main_raised, fetcher>>

\* lines 339-344: remove download_state.json and return combined_df
RemoveState ==
  /\ pc = "REMOVE_STATE"
  /\ state_file' = NoFile
  /\ result_df' = Df(combined_df)
  /\ pc' = "RETURNED"
  /\ UNCHANGED <<env, splitv, resume_from_batch, exit, locals, last_call, page_waits,
                 restored, pages_fetched, failed_calls, batch_files, latest_file, report,
                 main_raised, fetcher>>

(***************************************************************************)
(* main().                                                                 *)
(***************************************************************************)
\* lines 399-473: the success path
MainSuccess ==
  /\ pc = "RETURNED"
  /\ result_df # NoneDf
  /\ report' = "success"
  /\ dataframe' = result_df.rows
  /\ by_exchange' = split_symbols_by_exchange_and_type(result_df.rows, by_exchange)
  /\ pc' = "FINALLY"
  /\ UNCHANGED <<env, resume_from_batch, exit, locals, last_call, page_waits,
                 restored, pages_fetched, failed_calls, disk, result_df, main_raised, fetcher>>

\* lines 475-490: the failed-or-incomplete path
MainIncomplete ==
  /\ pc = "RETURNED"
  /\ result_df = NoneDf
  /\ report' = "incomplete"
  /\ pc' = "FINALLY"
  /\ UNCHANGED <<env, splitv, resume_from_batch, exit, locals, last_call, page_waits,
                 restored, pages_fetched, failed_calls, disk, result_df, main_raised, fetcher>>

\* cleanup_batch_files: every batch_*.csv is removed
cleanup_batch_files(files) == NoFiles

\* lines 517-521: the finally block
Finally ==
  /\ pc = "FINALLY"
  /\ IF result_df # NoneDf /\ Len(result_df.rows) > 0
     THEN batch_files' = cleanup_batch_files(batch_files)
     ELSE UNCHANGED batch_files
  /\ pc' = "EXITED"
  /\ UNCHANGED <<env, splitv, resume_from_batch, exit, locals, last_call, page_waits,
                 restored, pages_fetched, failed_calls, state_file, latest_file, mainv, fetcher>>

InHarvest == pc \in {"FETCHING", "PERSISTING", "CHECKPOINTING", "COMBINE", "REMOVE_STATE"}

\* lines 492-508 and 517-521: KeyboardInterrupt inside download_all_symbols;
\* result_df was never bound, so the finally block raises UnboundLocalError
Interrupt ==
  /\ InHarvest
  /\ report' = "interrupted"
  /\ main_raised' = TRUE
  /\ pc' = "EXITED"
  /\ UNCHANGED <<env, splitv, resume_from_batch, exit, locals, last_call, page_waits,
                 restored, pages_fetched, failed_calls, disk, result_df, fetcher>>

\* lines 244, 510-516 and 517-521: save_symbols_batch raises because the batch
\* file cannot be written; the exception leaves download_all_symbols, main()
\* reports the unexpected error, and the finally block, reading the unbound
\* result_df, raises UnboundLocalError
PersistRaises ==
  /\ pc = "PERSISTING"
  /\ report' = "fatal"
  /\ main_raised' = TRUE
  /\ pc' = "EXITED"
  /\ UNCHANGED <<env, splitv, resume_from_batch, exit, locals, last_call,
                 page_waits, restored, pages_fetched, failed_calls, disk,
                 result_df, fetcher>>

\* the operator starts the program again on the same output directory
NextRun ==
  /\ pc = "EXITED"
  /\ run < MaxRuns
  /\ run' = run + 1
  /\ pc' = "INIT" /\ exit' = "none"
  /\ resume_from_batch' = None
  /\ batch' = 1 /\ next_key' = None /\ total_symbols' = 0 /\ total_reported' = 0
  /\ consecutive_errors' = 0 /\ all_dataframes' = <<>>
  /\ result' = NoResult /\ combined_df' = <<>>
  /\ last_call' = NoCall /\ page_waits' = <<>> /\ pages_fetched' = 0
  /\ failed_calls' = 0
  /\ restored' = NoFile
  /\ result_df' = Unbound /\ report' = "none" /\ main_raised' = FALSE
  /\ dataframe' = <<>>
  /\ UNCHANGED <<stream, delay, disk, fetcher, by_exchange>>

Next ==
  \/ \E R \in ResumeChoices : Start(R)
  \/ \E c \in DefaultCalls : FetchFailed(c)
  \/ \E c \in DefaultCalls : FetchReturned(c)
  \/ Persist
  \/ Checkpoint
  \/ Combine
  \/ RemoveState
  \/ MainSuccess
  \/ MainIncomplete
  \/ Finally
  \/ Interrupt
  \/ PersistRaises
  \/ NextRun

Spec == Init /\ [][Next]_vars

(***************************************************************************)
(* search_symbols on its own, one attempt per step, for every retry_count  *)
(* and retry_delay of a small set.                                         *)
(***************************************************************************)
RetryDelays == {1, DefaultRetryDelay}

\* lines 82-136: one pass through the body of the for loop
Attempt(o) ==
  /\ call.ret = "running"
  /\ call.attempt < retry_count
  /\ call' = AttemptStep(call, o, retry_count, retry_delay)
  /\ UNCHANGED <<env, splitv, resume_from_batch, pc, exit, locals, last_call, page_waits,
                 restored, pages_fetched, failed_calls, disk, mainv, retry_count, retry_delay>>

\* lines 138-139: the for loop is exhausted
ReturnNone ==
  /\ call.ret = "running"
  /\ call.attempt >= retry_count
  /\ call' = LoopExhausted(call)
  /\ UNCHANGED <<env, splitv, resume_from_batch, pc, exit, locals, last_call, page_waits,
                 restored, pages_fetched, failed_calls, disk, mainv, retry_count, retry_delay>>

FetchInit ==
  /\ call = NewCall
  /\ retry_count \in 1..MaxRetryCount
  /\ retry_delay \in RetryDelays
  /\ stream = [base |-> 1, npages |-> 1, term |-> "both"]
  /\ delay = DefaultDelay
  /\ run = 1
  /\ batch_files = NoFiles /\ state_file = NoFile /\ latest_file = NoFile
  /\ FreshLocals
  /\ NoSplit

FetchNext == (\E o \in Outcomes : Attempt(o)) \/ ReturnNone

FetchSpec == FetchInit /\ [][FetchNext]_vars

(***************************************************************************)
(* A fresh run against a finite stream of a backend whose page fetches     *)
(* succeed.                                                                *)
(***************************************************************************)
TermInit ==
  /\ stream \in StreamsUpTo(MaxPages) \cup LongStreams
  /\ delay = 0
  /\ run = 1
  /\ batch_files = NoFiles /\ state_file = NoFile /\ latest_file = NoFile
  /\ FreshLocals
  /\ IdleFetcher
  /\ NoSplit

TermNext ==
  \/ Start(None)
  \/ \E c \in DefaultCalls : FetchReturned(c)
  \/ Persist
  \/ Checkpoint
  \/ Combine
  \/ RemoveState

TermSpec == TermInit /\ [][TermNext]_vars

(***************************************************************************)
(* One run with the two file writes of the loop body taken step by step:   *)
(* df.to_csv(batch_file) and open(state_file, 'w') + json.dump write the    *)
(* target file in place, so the file exists half-written until the write   *)
(* is through, and the operator's interrupt can arrive in between.         *)
(***************************************************************************)
\* line 147: to_csv has written the header and the first k rows of the batch
WriteBatchPartly(k) ==
  /\ pc = "PERSISTING"
  /\ k \in 0..(Len(result.symbolList) - 1)
  /\ batch \in DOMAIN batch_files => Len(batch_files[batch]) < k
  /\ batch_files' =
       (batch :> SubSeq(ToCsv(result.symbolList), 1, k)) @@ batch_files
  /\ UNCHANGED <<env, splitv, resume_from_batch, pc, exit, locals, last_call,
                 page_waits, restored, pages_fetched, failed_calls, state_file,
                 latest_file, mainv, fetcher>>

\* line 280: open(state_file, 'w') has truncated the checkpoint file
WriteStatePartly ==
  /\ pc = "CHECKPOINTING"
  /\ state_file # PartialCheckpoint
  /\ state_file' = PartialCheckpoint
  /\ UNCHANGED <<env, splitv, resume_from_batch, pc, exit, locals, last_call,
                 page_waits, restored, pages_fetched, failed_calls, batch_files,
                 latest_file, mainv, fetcher>>

CancelNext ==
  \/ Start(None)
  \/ \E c \in DefaultCalls : FetchFailed(c)
  \/ \E c \in DefaultCalls : FetchReturned(c)
  \/ \E k \in 0..Len(PageAB) : WriteBatchPartly(k)
  \/ Persist
  \/ WriteStatePartly
  \/ Checkpoint
  \/ Combine
  \/ RemoveState
  \/ Interrupt

CancelSpec == Init /\ [][CancelNext]_vars

(***************************************************************************)
(* A run started with --resume on an output directory as earlier runs and  *)
(* the operator can leave it: the batch files of the first pages of the    *)
(* stream, and a checkpoint that is absent, half-written or complete.      *)
(***************************************************************************)
\* batch_1.csv .. batch_n.csv as a run over the stream s writes them
BatchFilesOf(s, n) == [b \in 1..n |-> ToCsv(PageOf(s, b).symbolList)]

\* the checkpoint a fresh run over s writes after batch b: line 236 sets
\* total_reported from the first page, lines 273-278 build the state
CheckpointOf(s, b) ==
  [batch |-> b + 1, next_key |-> PageOf(s, b).nextKey,
   total_symbols |-> SumLen(BatchFilesOf(s, b)),
   total_reported |-> PageOf(s, 1).totalFound]

\* --resume N
ResumeNumbers == 2..(MaxPages + 1)

ResumeInit ==
  /\ stream \in StreamsUpTo(MaxPages)
  /\ delay \in Delays
  /\ run = 2
  /\ \E n \in 0..stream.npages :
       /\ batch_files = BatchFilesOf(stream, n)
       /\ state_file \in {NoFile, PartialCheckpoint}
                          \cup {CheckpointOf(stream, b) : b \in 1..n}
  /\ latest_file = NoFile
  /\ FreshLocals
  /\ IdleFetcher
  /\ NoSplit

ResumeNext ==
  \/ \E R \in ResumeNumbers : Start(R)
  \/ \E c \in DefaultCalls : FetchFailed(c)
  \/ \E c \in DefaultCalls : FetchReturned(c)
  \/ Persist
  \/ Checkpoint
  \/ Combine
  \/ RemoveState

ResumeSpec == ResumeInit /\ [][ResumeNext]_vars

(***************************************************************************)
(* The harvest loop against every backend behaviour: finite and endless    *)
(* streams, failed fetches at any point, and any starting batch number.    *)
(* Every transport call and every sleep returns, so a step that can be     *)
(* taken is taken.                                                         *)
(***************************************************************************)
\* --resume N: none, a small number, or a number around the batch ceiling;
\* an endless stream is started near the ceiling
LoopStarts ==
  LET around == (BatchCeiling - CeilingMargin)..(BatchCeiling + 1) IN
    IF stream.term = "endless" THEN around
    ELSE {None} \cup ResumeNumbers \cup around

LoopInit ==
  /\ stream \in StreamsUpTo(MaxPages) \cup EndlessStreams
  /\ delay = 0
  /\ run = 2
  /\ \E n \in 0..stream.npages :
       /\ batch_files = BatchFilesOf(stream, n)
       /\ state_file \in {NoFile} \cup {CheckpointOf(stream, b) : b \in {n} \ {0}}
  /\ latest_file = NoFile
  /\ FreshLocals
  /\ IdleFetcher
  /\ NoSplit

LoopNext ==
  \/ \E R \in LoopStarts : Start(R)
  \/ \E c \in DefaultCalls : FetchFailed(c)
  \/ \E c \in DefaultCalls : FetchReturned(c)
  \/ Persist
  \/ Checkpoint

LoopSpec == LoopInit /\ [][LoopNext]_vars /\ WF_vars(LoopNext)

(***************************************************************************)
(* split_symbols_by_exchange_and_type on its own, applied to every small   *)
(* merged dataset, again after a reordering of its rows, and again.        *)
(***************************************************************************)
SRec(s, e, t) == [symbol |-> s, exchange |-> e, securityType |-> t]

\* attribute values of a record; NaN: the record came without the attribute
\* (JSON null or no such key), which pandas holds as None/NaN in the column
Exchanges == {"NYSE", "NASDAQ", NaN}
SecurityTypes == {"EQUITY", "FUTURE", NaN}
SplitSymbols == {"A", "B", "C"}

\* merged, deduplicated datasets with both columns
SplitDatasets ==
  UNION {{df \in [1..n -> {SRec(s, e, t) : s \in SplitSymbols, e \in Exchanges,
                                          t \in SecurityTypes}] :
            \A i, j \in 1..n : df[i].symbol = df[j].symbol => i = j} :
         n \in 0..MaxSplitRows}

\* datasets that lack one of the two columns, or both
NoColumnDatasets ==
  {PageAB,
   <<[symbol |-> "A", exchange |-> "NYSE"]>>,
   <<[symbol |-> "A", securityType |-> "EQUITY"]>>}

SplitInit ==
  /\ dataframe \in SplitDatasets \cup NoColumnDatasets
  /\ by_exchange = NoFiles
  /\ stream = [base |-> 1, npages |-> 1, term |-> "both"]
  /\ delay = DefaultDelay
  /\ run = 1
  /\ batch_files = NoFiles /\ state_file = NoFile /\ latest_file = NoFile
  /\ FreshLocals
  /\ IdleFetcher

\* line 441: the partition is run on the dataset
SplitCall ==
  /\ by_exchange' = split_symbols_by_exchange_and_type(dataframe, by_exchange)
  /\ pc' = "SPLIT"
  /\ UNCHANGED <<env, dataframe, resume_from_batch, exit, locals, last_call,
                 page_waits, restored, pages_fetched, failed_calls, disk, mainv,
                 fetcher>>

\* the same records in another order
Reordered(rows) ==
  {[i \in 1..Len(rows) |-> rows[f[i]]] : f \in Permutations(1..Len(rows))}

Reorder ==
  /\ pc = "SPLIT"
  /\ dataframe' \in Reordered(dataframe) \ {dataframe}
  /\ pc' = "REORDERED"
  /\ UNCHANGED <<env, by_exchange, resume_from_batch, exit, locals, last_call,
                 page_waits, restored, pages_fetched, failed_calls, disk, mainv,
                 fetcher>>

SplitNext == SplitCall \/ Reorder

SplitSpec == SplitInit /\ [][SplitNext]_vars

(***************************************************************************)
(* Properties.                                                             *)
(***************************************************************************)
Rows(df) == {df[i] : i \in 1..Len(df)}
Keys(df) == {df[i].symbol : i \in 1..Len(df)}

\* the record lists an uninterrupted fresh run persists, batch after batch,
\* when every fetch returns its page
RECURSIVE PagesFrom(_, _, _)
PagesFrom(s, cursor, b) ==
  LET page == Backend(s, cursor) IN
    IF page.symbolList = <<>> THEN <<>>
    ELSE IF ~page.hasMore \/ page.nextKey = None \/ b + 1 > BatchCeiling
    THEN <<page.symbolList>>
    ELSE <<page.symbolList>> \o PagesFrom(s, page.nextKey, b + 1)

\* what one uninterrupted run over the stream returns
UninterruptedResult(s) == DropDuplicates(Concat(PagesFrom(s, None, 1)))

\* the run was started with resume_from_batch = N + 1 on a directory holding
\* N fully persisted and checkpointed batches of the stream, as an interrupted
\* run leaves them
ResumedAfter(N) ==
  /\ N >= 1
  /\ N <= Len(PagesFrom(stream, None, 1))
  /\ resume_from_batch = N + 1
  /\ restored # NoFile
  /\ restored.batch = N + 1
  /\ restored.next_key = PageOf(stream, N).nextKey
  /\ \A i \in 1..N :
       /\ i \in DOMAIN batch_files
       /\ batch_files[i] = ToCsv(PageOf(stream, i).symbolList)

Returned == pc = "RETURNED"

\* C1: a run resumed with resume_from_batch = N+1 after an interruption that
\* left N checkpointed batches, and that runs to completion, returns the same
\* set of records as one uninterrupted run over the same stream.
C1_Resumability ==
  \A N \in 1..MaxPages :
    (Returned /\ exit = "DONE" /\ ResumedAfter(N)) =>
      /\ result_df.kind = "DataFrame"
      /\ Rows(result_df.rows) = Rows(UninterruptedResult(stream))

\* C2: when the harvest stops after 3 consecutive failed fetches with k >= 1
\* batches completed, on return the checkpoint written after batch k still
\* exists and holds batch = k+1 and the cursor of page k (and a fresh run has
\* written no batch file for the failed page).
C2_AbortPreservesState ==
  (Returned /\ exit = "ABORTED" /\ pages_fetched >= 1) =>
    /\ state_file # NoFile
    /\ state_file.batch = batch
    /\ state_file.next_key = next_key
    /\ (run = 1 => batch \notin DOMAIN batch_files)

\* C3: when the harvest ended in ABORTED, download_all_symbols returns
\* failure, main() reports the run as incomplete, and every batch loaded or
\* written before the abort is still on disk when main() ends.
C3_AbortedIsIncomplete ==
  (exit = "ABORTED" /\ pc \in {"RETURNED", "FINALLY", "EXITED"}) =>
    /\ result_df = NoneDf
    /\ (pc # "RETURNED" => report = "incomplete")
    /\ Cardinality(DOMAIN batch_files) >= Len(all_dataframes)

InLoop == pc \in {"FETCHING", "PERSISTING", "CHECKPOINTING"}

\* how far the harvest loop is from its exit, in steps: the batches left below
\* the ceiling, and the steps left in the current iteration
LoopRank ==
  IF ~InLoop THEN 0
  ELSE 3 * (BatchCeiling + 1 - batch)
         + (CASE pc = "FETCHING" -> 3 [] pc = "PERSISTING" -> 2 [] OTHER -> 1)

\* C4: a fresh run against a finite stream whose page fetches succeed leaves
\* the harvest loop in DONE after at most 1000 loop iterations (page fetches):
\* inside the loop the run can always take its next step, every step brings
\* the exit nearer, the loop is only ever left in DONE, and no run fetches
\* more than 1000 pages.
C4_Termination ==
  /\ [](pages_fetched <= BatchCeiling)
  /\ [](InLoop => (LoopRank > 0 /\ ENABLED TermNext))
  /\ [][InLoop => LoopRank' < LoopRank]_vars
  /\ [](pc \in {"COMBINE", "REMOVE_STATE", "RETURNED"} => exit = "DONE")

\* a run over a stream of MaxPages pages has left the loop in DONE
C4_Witness ==
  /\ stream.npages = MaxPages /\ stream.term = "nullKey"
  /\ Returned /\ exit = "DONE"
  /\ pages_fetched = MaxPages

\* the batch numbers behind all_dataframes: the files loaded at the start, in
\* ascending order, then the batches this run wrote
StartBatch == IF resume_from_batch # None THEN resume_from_batch ELSE 1
LoadedNumbers ==
  IF resume_from_batch # None /\ resume_from_batch > 1
  THEN Ascending({i \in DOMAIN batch_files : i < resume_from_batch})
  ELSE <<>>
BatchNumbers ==
  LoadedNumbers \o
    [j \in 1..(Len(all_dataframes) - Len(LoadedNumbers)) |-> StartBatch + j - 1]

\* all_dataframes holds the batches on disk in batch-number order
InBatchOrder ==
  /\ Len(all_dataframes) >= Len(LoadedNumbers)
  /\ \A i \in 1..Len(all_dataframes) :
       /\ BatchNumbers[i] \in DOMAIN batch_files
       /\ IF i <= Len(LoadedNumbers)
          THEN all_dataframes[i] = ReadCsv(batch_files[BatchNumbers[i]])
          ELSE batch_files[BatchNumbers[i]] = ToCsv(all_dataframes[i])

\* the DONE post-action has been carried out
DonePostAction ==
  /\ InBatchOrder
  /\ result_df = Df(DropDuplicates(Concat(all_dataframes)))
  /\ latest_file = [exists |-> TRUE, rows |-> ToCsv(result_df.rows)]
  /\ state_file = NoFile

\* C5 as stated: however the loop reached DONE and however many batches were
\* collected (zero or more), on return the merged output has been written from
\* all batches in batch-number order, the checkpoint file is gone and the
\* merged deduplicated set is returned.
C5_Original == (Returned /\ exit = "DONE") => DonePostAction

\* C5 as amended: the same, for one or more collected batches; with no batch
\* collected nothing is written, None is returned and the checkpoint file is
\* left as it was.
C5_DonePostAction ==
  (Returned /\ exit = "DONE") =>
    IF all_dataframes # <<>>
    THEN DonePostAction
    ELSE /\ result_df = NoneDf
         /\ state_file = restored
         /\ pages_fetched = 1

\* DONE by the batch ceiling, in a resumed run that loaded and wrote batches
C5_Witness ==
  /\ Returned /\ exit = "DONE"
  /\ batch > BatchCeiling
  /\ Len(LoadedNumbers) >= 1
  /\ Len(all_dataframes) > Len(LoadedNumbers)

\* 3 pages of 2 records each, 6 distinct symbols, the third with hasMore=false
ScenarioStream ==
  /\ stream.base = 1 /\ stream.npages = 3
  /\ stream.term \in {"hasMoreFalse", "both"}

DistinctKeys(df) == \A i, j \in 1..Len(df) : df[i].symbol = df[j].symbol => i = j

\* C6: on the scenario stream a fresh run with delay 0 writes exactly batch
\* files 1, 2, 3 of 2 records each and a merged output of 6 unique records,
\* leaves no checkpoint file, and reports 6 symbols in 3 batches.
C6_Scenario ==
  (ScenarioStream /\ run = 1 /\ delay = 0 /\ Returned /\ exit = "DONE") =>
    /\ DOMAIN batch_files = {1, 2, 3}
    /\ \A b \in {1, 2, 3} : Len(batch_files[b]) = 2
    /\ latest_file # NoFile
    /\ Len(latest_file.rows) = 6 /\ DistinctKeys(latest_file.rows)
    /\ result_df.kind = "DataFrame" /\ Len(result_df.rows) = 6
    /\ state_file = NoFile
    /\ total_symbols = 6 /\ Len(all_dataframes) = 3

C6_Witness ==
  /\ ScenarioStream /\ run = 1 /\ delay = 0 /\ Returned /\ exit = "DONE"
  /\ stream.term = "hasMoreFalse"
  /\ Len(result_df.rows) = 6

\* the first row of df that carries key k
FirstAt(df, k) ==
  CHOOSE i \in 1..Len(df) :
    df[i].symbol = k /\ \A j \in 1..(i - 1) : df[j].symbol # k

\* C7: the merged output holds exactly one record per distinct symbol key of
\* the batches, namely the first one carrying the key in batch-number-then-
\* position order; the kept records keep their relative order; and merging
\* the output again changes nothing.
C7_Dedup ==
  pc = "REMOVE_STATE" =>
    LET all == Concat(all_dataframes)
        out == combined_df
    IN /\ Keys(out) = Keys(all)
       /\ DistinctKeys(out)
       /\ \A i \in 1..Len(out) : out[i] = all[FirstAt(all, out[i].symbol)]
       /\ \A i \in 1..(Len(out) - 1) :
            FirstAt(all, out[i].symbol) < FirstAt(all, out[i + 1].symbol)
       /\ DropDuplicates(out) = out

\* a key came twice with different records, and the first one was kept
C7_Witness ==
  /\ pc = "REMOVE_STATE"
  /\ \E i, j \in 1..Len(Concat(all_dataframes)) :
       /\ i < j
       /\ Concat(all_dataframes)[i].symbol = Concat(all_dataframes)[j].symbol
       /\ Concat(all_dataframes)[i] # Concat(all_dataframes)[j]
       /\ Concat(all_dataframes)[i] \in Rows(combined_df)
  /\ Len(combined_df) < Len(Concat(all_dataframes))

\* outcomes after which the fetcher is meant to give up at once
NonRetryable == {"http4xx", "logic", "nostruct"}

\* C8: after an attempt that came back with a status neither 200 nor >= 500,
\* with an error other than the transient one, or with neither data nor
\* errors, search_symbols makes no further GET for the page.
C8_NoRetry ==
  \A i \in 1..Len(call.outcomes) :
    call.outcomes[i] \in NonRetryable => Len(call.outcomes) = i

AllServerErrors ==
  \A i \in 1..Len(call.outcomes) : call.outcomes[i] = "http5xx"

Min(a, b) == IF a <= b THEN a ELSE b

\* C9: while every attempt of a call comes back with a status >= 500, the
\* sleep after attempt i (0-based) is retry_delay * (i + 1), so the sleeps
\* never decrease, and the call returns failure after exactly retry_count
\* GETs.
C9_ServerErrorBackoff ==
  AllServerErrors =>
    /\ call.waits =
         [k \in 1..Min(Len(call.outcomes), retry_count - 1) |->
            [after |-> k - 1, secs |-> retry_delay * k]]
    /\ \A k \in 1..(Len(call.waits) - 1) :
         call.waits[k].secs <= call.waits[k + 1].secs
    /\ Len(call.outcomes) <= retry_count
    /\ (call.ret # "running" =>
          call.ret = "none" /\ Len(call.outcomes) = retry_count)

C9_Witness ==
  /\ AllServerErrors
  /\ call.ret = "none"
  /\ retry_count = DefaultRetryCount
  /\ Len(call.waits) = 2

\* a call whose first two attempts hit the transient backend error and whose
\* third attempt returns data
TransientTwice ==
  SearchSymbols(<<"transient", "transient", "data">>,
                DefaultRetryCount, DefaultRetryDelay)

\* the symbols of every page of the stream
StreamKeys ==
  UNION {Keys(PageOf(stream, i).symbolList) : i \in 1..stream.npages}

\* C10: a call whose first two attempts hit the transient backend error and
\* whose third returns data returns the data after exactly 3 GETs, having
\* slept retry_delay * (i + 2) after failed attempt i; the page such a call
\* returns is the page at the cursor, the harvest persists it as its batch,
\* and a fresh run that ends in DONE has every symbol of the stream in its
\* merged set.
C10_TransientRetry ==
  /\ TransientTwice.ret = "data"
  /\ Len(TransientTwice.outcomes) = 3
  /\ TransientTwice.waits =
       <<[after |-> 0, secs |-> DefaultRetryDelay * 2],
         [after |-> 1, secs |-> DefaultRetryDelay * 3]>>
  /\ (pc = "PERSISTING" /\ page_waits = TransientTwice.waits) =>
       /\ last_call.ret = "data" /\ last_call.gets = 3
       /\ result = Backend(stream, next_key)
  /\ pc = "CHECKPOINTING" =>
       /\ batch \in DOMAIN batch_files
       /\ batch_files[batch] = ToCsv(result.symbolList)
       /\ all_dataframes[Len(all_dataframes)] = result.symbolList
  /\ (run = 1 /\ Returned /\ exit = "DONE") =>
       (stream.npages > 0 => StreamKeys \subseteq Keys(result_df.rows))

\* page 2 came from such a call and is about to be persisted
C10_Witness ==
  /\ pc = "PERSISTING"
  /\ page_waits = TransientTwice.waits
  /\ last_call.gets = 3
  /\ batch = 2
  /\ result = PageOf(stream, 2)

\* C11: whatever the attempts of a call come back with (any status, any body,
\* timeout, connection failure, any other exception), search_symbols makes at
\* most retry_count attempts and ends only by returning the data of a
\* successful attempt or the failure value; no attempt's exception leaves it.
C11_FailuresAreValues ==
  /\ call.ret \in {"running", "data", "none"}
  /\ Len(call.outcomes) <= retry_count
  /\ call.attempt = Len(call.outcomes)
  /\ (call.ret = "data" =>
        /\ call.outcomes # <<>>
        /\ call.outcomes[Len(call.outcomes)] = "data")
  /\ (call.ret = "none" =>
        /\ Len(call.outcomes) = retry_count
        /\ \A i \in 1..Len(call.outcomes) : call.outcomes[i] # "data")
  /\ (call.ret = "running" =>
        \A i \in 1..Len(call.outcomes) : call.outcomes[i] # "data")

\* a call whose attempts raised a timeout, a connection error and another
\* exception has returned the failure value
C11_Witness ==
  /\ call.ret = "none"
  /\ call.outcomes = <<"timeout", "connerr", "exc">>
  /\ call.last_error = "Unexpected error"

\* C12: in every state of the harvest the counter consecutive_errors equals
\* the number of failed search_symbols calls since the last successful one (or
\* since the start of the run); every successful call resets it to 0; it never
\* exceeds 3; and the harvest is in ABORTED exactly when it has reached 3,
\* after which no further fetch is issued.
C12_FailureCounter ==
  /\ [](consecutive_errors = failed_calls)
  /\ [](consecutive_errors <= max_consecutive_errors)
  /\ []((consecutive_errors = max_consecutive_errors) <=> (exit = "ABORTED"))
  /\ [](exit = "ABORTED" => pc # "FETCHING")
  /\ [][pages_fetched' = pages_fetched + 1 => consecutive_errors' = 0]_vars
  /\ [][consecutive_errors = max_consecutive_errors =>
         /\ pages_fetched' <= pages_fetched
         /\ failed_calls' <= failed_calls]_vars

\* the third failure in a row, after a page had been fetched, stopped the loop
C12_Witness ==
  /\ pc = "COMBINE" /\ exit = "ABORTED"
  /\ consecutive_errors = max_consecutive_errors
  /\ pages_fetched >= 1

C14_BatchCeiling ==
  /\ \A b \in DOMAIN batch_files : b <= BatchCeiling
  /\ (pc \in {"FETCHING", "PERSISTING", "CHECKPOINTING"} =>
        batch <= BatchCeiling)

\* a step in which the harvest loop calls search_symbols
CallStep ==
  pages_fetched' = pages_fetched + 1 \/ failed_calls' = failed_calls + 1

\* no call has been made yet in this run
BeforeFirstCall == pages_fetched = 0 /\ failed_calls = 0

\* C15: in every run, fresh or resumed, the inter-page delay is slept before
\* every search_symbols call of the harvest loop except the first call of the
\* run, and is not slept before that first call.
C15_InterPageDelay ==
  [][CallStep =>
       last_call'.pre = IF BeforeFirstCall THEN <<>> ELSE <<delay>>]_vars

\* download_all_symbols did not return: it was interrupted or it raised
NotReturned == report \in {"interrupted", "fatal"}

\* C17: when download_all_symbols raises an unexpected exception or is
\* interrupted before it returns, main() reports it and ends without an
\* exception leaving main(), and the checkpoint and the batch files stay as
\* they were when the failure occurred.
C17_ControlledAbort ==
  /\ []((pc = "EXITED" /\ NotReturned) => ~main_raised)
  /\ [][(NotReturned' /\ ~NotReturned) => UNCHANGED disk]_vars

\* C19: a checkpoint naming batch b+1 is written only when batch b's file is
\* completely written; a fetch that follows a fetched page starts only with
\* the checkpoint of that page on disk; and when writing batch b fails the
\* checkpoint is left as it was and the run stops without another fetch.
C19_PersistCheckpointFetch ==
  /\ [][(state_file' # state_file /\ state_file' # NoFile) =>
         /\ batch \in DOMAIN batch_files
         /\ batch_files[batch] = ToCsv(result.symbolList)
         /\ state_file'.batch = batch + 1]_vars
  /\ [][(CallStep /\ pages_fetched >= 1) =>
         /\ state_file # NoFile
         /\ state_file.batch = batch
         /\ state_file.next_key = next_key
         /\ (batch - 1) \in DOMAIN batch_files]_vars
  /\ [][(report' = "fatal" /\ report # "fatal") =>
         /\ pc' = "EXITED"
         /\ UNCHANGED <<state_file, batch_files>>]_vars
  /\ [][report = "fatal" => ~CallStep]_vars

\* writing batch 2 failed: the checkpoint still names batch 2, whose file is
\* not there, and the run has ended
C19_Witness ==
  /\ pc = "EXITED" /\ report = "fatal" /\ run = 1
  /\ batch = 2 /\ pages_fetched = 2
  /\ state_file # NoFile /\ state_file.batch = 2
  /\ DOMAIN batch_files = {1}

\* the page's own signal says the stream goes on
SaysMore(page) == page.hasMore /\ page.nextKey # None

\* after a fetched non-empty page: it is persisted as its batch and
\* checkpointed first, and then the harvest fetches on iff the page says more
\* and the ceiling is not exceeded, and is DONE otherwise
NonEmptyPageDecision ==
  /\ [][(pages_fetched' = pages_fetched + 1
           /\ Backend(stream, next_key).symbolList # <<>>) =>
         /\ pc' = "PERSISTING" /\ result' = Backend(stream, next_key)
         /\ UNCHANGED <<exit, batch_files, state_file>>]_vars
  /\ [][(pc = "PERSISTING" /\ pc' \notin {"PERSISTING", "EXITED"}) =>
         /\ pc' = "CHECKPOINTING"
         /\ batch_files'[batch] = ToCsv(result.symbolList)]_vars
  /\ [][(pc = "CHECKPOINTING" /\ pc' \notin {"CHECKPOINTING", "EXITED"}) =>
         /\ state_file' = [batch |-> batch + 1, next_key |-> result.nextKey,
                           total_symbols |-> total_symbols,
                           total_reported |-> total_reported]
         /\ IF SaysMore(result) /\ batch + 1 <= BatchCeiling
            THEN pc' = "FETCHING" /\ exit' = exit
            ELSE pc' = "COMBINE" /\ exit' = "DONE"]_vars

\* C20 as stated: a non-empty page is persisted and checkpointed first and the
\* harvest then goes on iff the page says more (and the ceiling allows); and
\* hasMore/nextKey alone decide termination also when the record list is
\* empty: after an empty page the harvest is DONE iff the page does not say
\* more.
C20_Original ==
  /\ NonEmptyPageDecision
  /\ [][(pages_fetched' = pages_fetched + 1
           /\ Backend(stream, next_key).symbolList = <<>>) =>
         (exit' = "DONE" <=> ~SaysMore(Backend(stream, next_key)))]_vars

\* C20 as amended: the same for a non-empty page; an empty record list ends
\* the harvest in DONE whatever the page's hasMore and nextKey say, and the
\* empty page is neither persisted nor checkpointed.
C20_TerminationDecision ==
  /\ NonEmptyPageDecision
  /\ [][(pages_fetched' = pages_fetched + 1
           /\ Backend(stream, next_key).symbolList = <<>>) =>
         /\ exit' = "DONE" /\ pc' = "COMBINE"
         /\ UNCHANGED <<batch, next_key, batch_files, state_file>>]_vars

\* an empty page that said hasMore = true with a cursor has ended the harvest
C20_Witness ==
  /\ pc = "COMBINE" /\ exit = "DONE"
  /\ stream.term = "emptyMore" /\ stream.npages = 2
  /\ pages_fetched = 3
  /\ SaysMore(Backend(stream, next_key))
  /\ Backend(stream, next_key).symbolList = <<>>
  /\ DOMAIN batch_files = {1, 2}

\* C16: after an operator interrupt at any point of download_all_symbols no
\* batch file on disk is partially written, and the checkpoint file is absent
\* or complete (the previous checkpoint or the new one), never partial.
C16_AtomicWrites ==
  (pc = "EXITED" /\ report = "interrupted") =>
    /\ \A b \in DOMAIN batch_files :
         batch_files[b] = ToCsv(PageOf(stream, b).symbolList)
    /\ state_file # PartialCheckpoint
    /\ (state_file # NoFile => state_file.batch \in {batch, batch + 1})

\* the record sets of the files of an output tree
FileSets(files) == [p \in DOMAIN files |-> Rows(files[p])]

\* C18: after the partition of a dataset that has both attributes, every
\* record is in exactly the file <<its exchange, its securityType>>, so each
\* file holds only records matching its path and no symbol twice; running the
\* partition again, or on any reordering of the records, gives the same files
\* with the same record sets; a dataset lacking an attribute writes nothing.
C18_Partition ==
  pc = "SPLIT" =>
    IF HasColumns(dataframe)
    THEN /\ \A i \in 1..Len(dataframe) :
              /\ <<dataframe[i].exchange, dataframe[i].securityType>>
                   \in DOMAIN by_exchange
              /\ \A p \in DOMAIN by_exchange :
                   dataframe[i] \in Rows(by_exchange[p]) <=>
                     p = <<dataframe[i].exchange, dataframe[i].securityType>>
         /\ \A p \in DOMAIN by_exchange :
              /\ DistinctKeys(by_exchange[p])
              /\ \A i \in 1..Len(by_exchange[p]) :
                   /\ by_exchange[p][i].exchange = p[1]
                   /\ by_exchange[p][i].securityType = p[2]
         /\ split_symbols_by_exchange_and_type(dataframe, by_exchange)
              = by_exchange
         /\ \A df \in Reordered(dataframe) :
              FileSets(split_symbols_by_exchange_and_type(df, NoFiles))
                = FileSets(by_exchange)
    ELSE by_exchange = NoFiles

\* the checkpoint the harvest loop writes once the batch numbered b is
\* persisted, from the loop's locals at that point
CheckpointAfter(b, key) ==
  [batch |-> b + 1, next_key |-> key,
   total_symbols |-> SumLen(all_dataframes),
   total_reported |-> total_reported]

\* batches this run has persisted
PersistedThisRun == Len(all_dataframes) - Len(LoadedNumbers)

\* the run is between two iterations of the harvest loop, or has just left it
BetweenBatches == pc \in {"FETCHING", "COMBINE"}

\* C21 as stated: whenever a checkpoint file exists during a run, it holds
\* the values written after the most recently persisted batch b: batch = b+1,
\* the cursor returned with page b, the record count of all batches loaded or
\* persisted so far, and the current totalReported.
C21_Original ==
  (BetweenBatches /\ state_file # NoFile) =>
    /\ all_dataframes # <<>>
    /\ state_file =
         CheckpointAfter(BatchNumbers[Len(all_dataframes)], next_key)

\* C21 as amended: once a run has persisted a batch b and written its
\* checkpoint, the checkpoint file holds exactly batch = b+1, the cursor
\* returned with page b, the record count of all batches loaded or persisted
\* so far and the current totalReported; each checkpoint write replaces the
\* whole file with these four values; and until the run's first checkpoint
\* write the file is whatever the earlier run left, untouched.
C21_CheckpointContents ==
  /\ []((BetweenBatches /\ PersistedThisRun >= 1) =>
          /\ state_file # NoFile
          /\ state_file =
               CheckpointAfter(BatchNumbers[Len(all_dataframes)], next_key))
  /\ [][pc = "CHECKPOINTING" /\ pc' # "EXITED" =>
          /\ batch \in DOMAIN batch_files
          /\ state_file' = CheckpointAfter(batch, result.nextKey)]_vars
  /\ []((run = 1 /\ InHarvest /\ PersistedThisRun = 0) => state_file = NoFile)
  /\ [][pc \notin {"CHECKPOINTING", "REMOVE_STATE"} =>
          state_file' = state_file]_vars

\* a second checkpoint write has replaced the first
C21_Witness ==
  /\ pc = "FETCHING" /\ PersistedThisRun = 2
  /\ state_file # NoFile /\ state_file.batch = 3
  /\ state_file.total_symbols = SumLen(all_dataframes)
  /\ state_file.total_symbols > 0

\* the record count of the batch files numbered below R on disk
RecordsBelow(files, R) ==
  SumLen([j \in 1..Len(Ascending({i \in DOMAIN files : i < R})) |->
            files[Ascending({i \in DOMAIN files : i < R})[j]]])

\* C22: a run called with resume_from_batch = R > 1 always gets to its first
\* fetch; before that fetch its running total is the record count of the
\* batch files 1..R-1 found on disk and its batch number is R; its cursor and
\* totalReported are those of the checkpoint file when that file exists and
\* is readable, and the null cursor and 0 when it is absent or corrupt.
C22_ResumeInitialisation ==
  /\ [](pc = "INIT" => \A R \in ResumeNumbers : ENABLED Start(R))
  /\ []((pc = "FETCHING" /\ BeforeFirstCall) =>
          /\ resume_from_batch \in ResumeNumbers
          /\ batch = resume_from_batch
          /\ total_symbols = RecordsBelow(batch_files, resume_from_batch)
          /\ IF Readable(state_file)
             THEN /\ next_key = state_file.next_key
                  /\ total_reported = state_file.total_reported
             ELSE next_key = None /\ total_reported = 0)

\* a run resumed over a half-written checkpoint with batches on disk
C22_Witness ==
  /\ pc = "FETCHING" /\ BeforeFirstCall
  /\ state_file = PartialCheckpoint
  /\ resume_from_batch = 3 /\ batch = 3
  /\ total_symbols = 4 /\ next_key = None

\* the run is the first run on the directory, or a run resumed with the batch
\* number the checkpoint file names
CheckpointedRun ==
  \/ run = 1
  \/ /\ resume_from_batch # None
     /\ Readable(restored)
     /\ restored.batch = resume_from_batch

\* C23: across a fresh run, interruptions at any point and resumes with the
\* batch number named by the checkpoint, the batch numbers a run persists are
\* consecutive from its starting number, a run never writes a batch file that
\* is already on disk, and no step changes the contents of a batch file.
C23_WrittenOnce ==
  /\ []((CheckpointedRun /\ pc = "PERSISTING") =>
          batch = StartBatch + PersistedThisRun)
  /\ [][(CheckpointedRun /\ pc = "PERSISTING" /\ pc' = "CHECKPOINTING") =>
          batch \notin DOMAIN batch_files]_vars
  /\ [][CheckpointedRun =>
          \A b \in DOMAIN batch_files \cap DOMAIN batch_files' :
            batch_files'[b] = batch_files[b]]_vars

\* C24: in every run resumed from any batch number, whatever checkpoint file
\* is or is not on disk, the batch file numbered k the run writes holds the
\* k-th page of the backend stream.
C24_BatchIsPage ==
  [][(pc = "PERSISTING" /\ pc' = "CHECKPOINTING") =>
       batch_files'[batch] = ToCsv(PageOf(stream, batch).symbolList)]_vars

\* how many rows of df carry the key k
KeyCount(df, k) == Cardinality({i \in 1..Len(df) : df[i].symbol = k})

\* the batch numbers whose records this run merged
MergedNumbers == {BatchNumbers[i] : i \in 1..Len(all_dataframes)}

\* C25: whenever main() deletes batch files, the merged output file has been
\* written in the same run, every deleted batch file was merged by this run,
\* and for every symbol key in a deleted batch file the merged output file
\* holds one record with that key.
C25_CleanupLosesNothing ==
  [][(pc = "FINALLY" /\ batch_files' # batch_files) =>
       /\ combined_df # <<>>
       /\ latest_file = [exists |-> TRUE, rows |-> ToCsv(combined_df)]
       /\ \A b \in DOMAIN batch_files \ DOMAIN batch_files' :
            /\ b \in MergedNumbers
            /\ \A k \in Keys(batch_files[b]) :
                 KeyCount(latest_file.rows, k) = 1]_vars

\* the steps the harvest loop is from its exit at most: five for each batch
\* number left below the ceiling, and within the current iteration the fetch
\* attempts left before the abort, the persist and the checkpoint
HarvestRank ==
  IF ~InLoop THEN 0
  ELSE 5 * (IF batch > BatchCeiling THEN 0 ELSE BatchCeiling + 1 - batch)
         + (CASE pc = "FETCHING" ->
                   2 + (max_consecutive_errors - consecutive_errors)
              [] pc = "PERSISTING" -> 2
              [] OTHER -> 1)

\* a finished search_symbols call made between 1 and rc GETs and did not sleep
\* after its final attempt
CallWithinBounds(c, rc) ==
  /\ c.ret \in {"data", "none"}
  /\ Len(c.outcomes) \in 1..rc
  /\ \A k \in 1..Len(c.waits) : c.waits[k].after < Len(c.outcomes) - 1

\* every search_symbols call with retry_count 1..MaxRetryCount, whatever its
\* transport GETs come back with
FetcherBounded ==
  \A rc \in 1..MaxRetryCount : \A outs \in [1..rc -> Outcomes] :
    CallWithinBounds(SearchSymbols(outs, rc, DefaultRetryDelay), rc)

\* C26: every search_symbols call makes between 1 and retry_count GETs and
\* does not sleep after its final attempt; and for every backend behaviour and
\* every starting batch number the harvest loop, whose calls and sleeps all
\* return, can always take its next step, gets nearer to its exit with every
\* step, and eventually leaves the loop in DONE or ABORTED.
C26_HarvestTerminates ==
  /\ FetcherBounded
  /\ [][CallStep => last_call'.gets \in 1..DefaultRetryCount]_vars
  /\ [](InLoop => (HarvestRank > 0 /\ ENABLED LoopNext))
  /\ [][InLoop => HarvestRank' < HarvestRank]_vars
  /\ [](pc = "COMBINE" => exit \in {"DONE", "ABORTED"})
  /\ (pc = "INIT" ~> (pc = "COMBINE" /\ exit \in {"DONE", "ABORTED"}))

\* an endless stream: a page fetched and persisted, then three failed calls
\* of three GETs each, and the loop has been left in ABORTED
C26_Witness ==
  /\ stream.term = "endless"
  /\ pc = "COMBINE" /\ exit = "ABORTED"
  /\ pages_fetched = 1 /\ failed_calls = max_consecutive_errors
  /\ batch = BatchCeiling
  /\ last_call.gets = DefaultRetryCount

====
